---- MODULE Spec2Model ----
(***************************************************************************)
(* CyberTracker CTX File Builder (cybertracker_ctx_builder.py).            *)
(*                                                                         *)
(* The model follows the CTXBuilder class: the directory scan that groups  *)
(* .xml/.txt/.dat files into file sets, the listbox selection handler and  *)
(* build_ctx, which stages a set in a temporary directory, runs makecab    *)
(* there and copies the cabinet to <name>.ctx.                             *)
(*                                                                         *)
(* File names are sequences of one-character strings, so that lower(),     *)
(* endswith() and Path.stem are computed and not assumed.  Python indices  *)
(* are kept 0-based (selected_set_index, curselection); TLA+ sequences are *)
(* 1-based, hence the "+ 1" where a list is indexed.                       *)
(*                                                                         *)
(* build_ctx calls self.root.update() three times (lines 188, 196, 245).   *)
(* update() dispatches pending user events, so the Browse button and the   *)
(* listbox handlers can run at these points while a build is in progress;  *)
(* pc records at which of them build_ctx stands.  A second click on the    *)
(* Build button while a build is in progress is not modelled: BuildStart   *)
(* requires pc = "idle".  When build_ctx has ended, pc is "returned" until *)
(* control is back in the main loop (BuildReturn), which also forgets the  *)
(* record kept of the invocation.                                          *)
(***************************************************************************)
EXTENDS Integers, Sequences, FiniteSets, TLC

\* ------------------------------------------------------------------ bounds

\* Largest number of directory entries in a directory of the scan-only model.
MaxScanFiles == 4
\* Number of build_ctx invocations followed in one behaviour.
MaxBuilds == 2

\* ------------------------------------------------------------ str and Path

UpperCase == <<"A", "B", "C", "D", "E", "F", "G", "H", "I", "J", "K", "L", "M",
               "N", "O", "P", "Q", "R", "S", "T", "U", "V", "W", "X", "Y", "Z">>
LowerCase == <<"a", "b", "c", "d", "e", "f", "g", "h", "i", "j", "k", "l", "m",
               "n", "o", "p", "q", "r", "s", "t", "u", "v", "w", "x", "y", "z">>

\* str.lower() on one character.
LowerChar(c) ==
    IF \E i \in 1..26 : UpperCase[i] = c
    THEN LowerCase[CHOOSE i \in 1..26 : UpperCase[i] = c]
    ELSE c

\* str.lower()
Lower(s) == [i \in 1..Len(s) |-> LowerChar(s[i])]

\* str.endswith(suffix)
EndsWith(s, suffix) ==
    /\ Len(s) >= Len(suffix)
    /\ SubSeq(s, Len(s) - Len(suffix) + 1, Len(s)) = suffix

\* str.rfind('.'), as a 1-based position, 0 when there is no dot.
RFindDot(s) ==
    IF \E i \in 1..Len(s) : s[i] = "."
    THEN CHOOSE i \in 1..Len(s) : s[i] = "." /\ \A j \in (i+1)..Len(s) : s[j] # "."
    ELSE 0

\* PurePath.stem: the name without its suffix; a name whose only dot is its
\* first or its last character has no suffix.
Stem(name) ==
    IF RFindDot(name) > 1 /\ RFindDot(name) < Len(name)
    THEN SubSeq(name, 1, RFindDot(name) - 1)
    ELSE name

DotXml == <<".", "x", "m", "l">>
DotTxt == <<".", "t", "x", "t">>
DotDat == <<".", "d", "a", "t">>
DotCab == <<".", "c", "a", "b">>
DotCtx == <<".", "c", "t", "x">>

\* The fixed member names of a .ctx cabinet and the directive file.
InfoXml      == <<"I", "n", "f", "o">> \o DotXml
ElementsTxt  == <<"E", "l", "e", "m", "e", "n", "t", "s">> \o DotTxt
SightingsDAT == <<"S", "i", "g", "h", "t", "i", "n", "g", "s", ".", "D", "A", "T">>
DirectiveDdf == <<"d", "i", "r", "e", "c", "t", "i", "v", "e", ".", "d", "d", "f">>

\* Python's None for selected_set_index and curselection.
None == -1

\* A Path: directory / name.
Path(d, n) == [dir |-> d, name |-> n]
\* txt_match / dat_match before a match is found.
NoMatch == [dir |-> "", name |-> <<>>]

\* The extension test of the directory loop: which list a name is put on.
Classify(name) ==
    IF EndsWith(Lower(name), DotXml) THEN "xml"
    ELSE IF EndsWith(Lower(name), DotTxt) THEN "txt"
    ELSE IF EndsWith(Lower(name), DotDat) THEN "dat"
    ELSE "other"

\* ------------------------------------------------------- directory entries

File(n) == [name |-> n, is_file |-> TRUE]
SubDir(n) == [name |-> n, is_file |-> FALSE]

a_xml == <<"a">> \o DotXml
A_xml == <<"A">> \o DotXml
a_txt == <<"a">> \o DotTxt
a_dat == <<"a">> \o DotDat
A_DAT == <<"A", ".", "D", "A", "T">>
b_xml == <<"b">> \o DotXml
b_txt == <<"b">> \o DotTxt
b_dat == <<"b">> \o DotDat
A_TXT == <<"A", ".", "T", "X", "T">>
a_ctx == <<"a">> \o DotCtx

\* Directory entries of the full model.  Directory d1 holds a.txt and a.dat
\* and any of the two .xml files, so it has no, one or two file sets;
\* directory d2 holds the one complete set a.
Entries == {File(a_xml), File(A_xml), File(a_txt), File(a_dat)}
Listings == {{File(a_txt), File(a_dat)} \cup X : X \in SUBSET {File(a_xml), File(A_xml)}}
Triple == {File(a_xml), File(a_txt), File(a_dat)}

\* Directory entries of the scan-only model: case variants of names and of
\* extensions, an incomplete set, dot files, a name with two dots, a
\* subdirectory named like a component, and a file that is no component.
ScanEntries == {File(a_xml), File(A_xml), File(a_txt), File(A_TXT), File(a_dat),
                File(A_DAT), File(b_xml), File(b_txt), SubDir(b_dat),
                File(DotXml), File(DotXml \o DotTxt), File(DotXml \o DotDat),
                File(a_ctx)}

\* The names of the model, and str.lower(), Path.stem and the extension test
\* tabulated over them (each is computed once).
Names == {e.name : e \in Entries \cup ScanEntries}
stem == [n \in Names |-> Stem(n)]
lower == [s \in Names \cup {Stem(n) : n \in Names} |-> Lower(s)]
classified == [n \in Names |-> Classify(n)]

\* -------------------------------------------------------------------- scan

\* xml_files, txt_files, dat_files: the names of the regular files of the
\* listing that Classify puts on the list ext, in enumeration order.
RECURSIVE FilesOf(_, _)
FilesOf(listing, ext) ==
    IF listing = <<>> THEN <<>>
    ELSE IF Head(listing).is_file /\ classified[Head(listing).name] = ext
         THEN <<Head(listing).name>> \o FilesOf(Tail(listing), ext)
         ELSE FilesOf(Tail(listing), ext)

\* The first file of the list whose stem equals base_name ignoring case.
FirstMatch(d, files, base_name) ==
    IF \E i \in 1..Len(files) : lower[stem[files[i]]] = lower[base_name]
    THEN Path(d, files[CHOOSE i \in 1..Len(files) :
                    /\ lower[stem[files[i]]] = lower[base_name]
                    /\ \A j \in 1..(i-1) : lower[stem[files[j]]] # lower[base_name]])
    ELSE NoMatch

\* The acceptance test with the test of dat_match left out.
AcceptedTxtOnly(txt_match, dat_match) == txt_match # NoMatch

\* "if txt_match and dat_match": both files were found.
Accepted(txt_match, dat_match) == txt_match # NoMatch /\ dat_match # NoMatch

\* The loop over xml_files.
RECURSIVE MatchSets(_, _, _, _, _)
MatchSets(d, xml_files, txt_files, dat_files, processed_files) ==
    IF xml_files = <<>> THEN <<>>
    ELSE LET xml_file  == Path(d, Head(xml_files))
             base_name == stem[Head(xml_files)]
             txt_match == FirstMatch(d, txt_files, base_name)
             dat_match == FirstMatch(d, dat_files, base_name)
         IN  IF xml_file \in processed_files
             THEN MatchSets(d, Tail(xml_files), txt_files, dat_files, processed_files)
             ELSE IF Accepted(txt_match, dat_match)
             THEN <<[name |-> base_name, xml |-> xml_file,
                     txt |-> txt_match, dat |-> dat_match]>>
                  \o MatchSets(d, Tail(xml_files), txt_files, dat_files,
                               processed_files \cup {xml_file, txt_match, dat_match})
             ELSE MatchSets(d, Tail(xml_files), txt_files, dat_files, processed_files)

\* The file sets scan_for_file_sets finds in directory d, whose entries
\* iterdir() yields in the order of listing.
ScanFileSets(d, listing) ==
    MatchSets(d, FilesOf(listing, "xml"), FilesOf(listing, "txt"),
              FilesOf(listing, "dat"), {})

\* ------------------------------------------------------------------- state

VARIABLES
    files,               \* directory -> its entries [name, is_file]
    ctx,                 \* directory -> (name of a .ctx file -> its cabinet)
    selected_directory,  \* self.selected_directory, "" before the first browse
    file_sets,           \* self.file_sets
    selected_set_index,  \* self.selected_set_index
    sets_listbox,        \* the rows of self.sets_listbox
    curselection,        \* the row selected in self.sets_listbox, or None
    build_btn,           \* state of self.build_btn
    status_label,        \* text of self.status_label
    pc,                  \* "idle", the phase build_ctx is in, or "returned"
    file_set,            \* build_ctx's local file_set
    temp,                \* the files of the temporary directory of this build
    tempdirs,            \* the temporary directories that exist
    cwd,                 \* os.getcwd(): 0 the start directory, k the k-th temp dir
    builds,              \* number of build_ctx invocations so far
    messages,            \* the message boxes shown by the current invocation
    result,              \* how the last invocation ended
    raised,              \* the last invocation ended by an exception it let out
    makecab,             \* outcome of the compressor in the current invocation
    makecab_runs,        \* times the current invocation ran the compressor
    cwd_at_call,         \* cwd when the current invocation was called
    ctx_at_call          \* ctx when the current invocation was called

vars == <<files, ctx, selected_directory, file_sets, selected_set_index,
          sets_listbox, curselection, build_btn, status_label, pc, file_set,
          temp, tempdirs, cwd, builds, messages, result, raised, makecab,
          makecab_runs, cwd_at_call, ctx_at_call>>

fsVars    == <<files, ctx>>
uiVars    == <<selected_directory, file_sets, selected_set_index, sets_listbox,
               curselection, build_btn, status_label>>
buildVars == <<pc, file_set, temp, tempdirs, cwd, builds, messages, result,
               raised, makecab, makecab_runs, cwd_at_call, ctx_at_call>>

\* The directories the user can pick in the dialog.
Dirs == {"d1", "d2"}

\* build_ctx's file_set while build_ctx is not running.
NoFileSet == [name |-> <<>>, xml |-> NoMatch, txt |-> NoMatch, dat |-> NoMatch]

\* The empty directory of .ctx files / the empty temporary directory.
NoFiles == [n \in {} |-> <<>>]

\* A one-file directory content.
OneFile(n, content) == [m \in {n} |-> content]

\* d with file n written (created or replaced).
WriteFile(d, n, content) ==
    [m \in DOMAIN d \cup {n} |-> IF m = n THEN content ELSE d[m]]

\* A .ctx file left by an earlier run of some tool: a cabinet with no members.
OldCabinet == <<>>

\* The orders in which iterdir() can yield the entries of a directory.
RECURSIVE Orders(_)
Orders(S) ==
    IF S = {} THEN {<<>>}
    ELSE UNION {{<<e>> \o o : o \in Orders(S \ {e})} : e \in S}

\* The bytes of a component file, named by the file: the program never
\* writes a component file.
Bytes(path) == <<path.dir, path.name>>

\* The state after __init__, but for the directories.
InitApp ==
    /\ ctx = [d \in Dirs |-> IF d = "d1" THEN OneFile(a_ctx, OldCabinet) ELSE NoFiles]
    /\ selected_directory = ""
    /\ file_sets = <<>>
    /\ selected_set_index = None
    /\ sets_listbox = <<>>
    /\ curselection = None
    /\ build_btn = "disabled"
    /\ status_label = "Select a directory to begin"
    /\ pc = "idle"
    /\ file_set = NoFileSet
    /\ temp = NoFiles
    /\ tempdirs = {}
    /\ cwd = 0
    /\ builds = 0
    /\ messages = <<>>
    /\ result = "Idle"
    /\ raised = FALSE
    /\ makecab = "notrun"
    /\ makecab_runs = 0
    /\ cwd_at_call = 0
    /\ ctx_at_call = ctx

\* The full model: d1 holds an a.ctx from earlier, d2 holds no .ctx file.
Init ==
    /\ \E L \in Listings :
          files = [d \in Dirs |-> IF d = "d1" THEN L ELSE Triple]
    /\ InitApp

\* The scan-only model: d1 holds any entries of ScanEntries.
InitScan ==
    /\ \E S \in SUBSET ScanEntries :
          /\ Cardinality(S) <= MaxScanFiles
          /\ files = [d \in Dirs |-> IF d = "d1" THEN S ELSE Triple]
    /\ InitApp

\* The contents a directory can have in either model.
Contents == Listings \cup {S \in SUBSET ScanEntries : Cardinality(S) <= MaxScanFiles}

\* For each directory content, one enumeration order for every list of file
\* sets a scan of it can give (orders that give the same list are followed
\* once); tabulated.
ScanOrders ==
    [d \in Dirs, S \in Contents |->
        {CHOOSE o \in Orders(S) : ScanFileSets(d, o) = found :
            found \in {ScanFileSets(d, l) : l \in Orders(S)}}]

\* ---------------------------------------------------------------- handlers

\* scan_for_file_sets(directory), iterdir() yielding listing.
ScanForFileSets(directory, listing) ==
    LET found == ScanFileSets(directory, listing)
    IN  /\ file_sets' = found
        /\ sets_listbox' = [i \in 1..Len(found) |-> found[i].name]
        /\ curselection' = None
        /\ IF found # <<>>
           THEN /\ status_label' = "Found file set(s). Select one to build."
                /\ UNCHANGED build_btn
           ELSE /\ status_label' = "No complete file sets found in this directory"
                /\ build_btn' = "disabled"
        /\ UNCHANGED selected_set_index

\* browse_directory: the dialog returns directory, "" when it is cancelled.
BrowseDirectory ==
    /\ pc # "returned"
    /\ \E directory \in Dirs \cup {""} :
        IF directory # ""
        THEN /\ selected_directory' = directory
             /\ \E listing \in ScanOrders[directory, files[directory]] :
                    ScanForFileSets(directory, listing)
             /\ UNCHANGED <<fsVars, buildVars>>
        ELSE UNCHANGED vars

\* on_set_select: the listbox selection became selection (None: the listbox
\* lost the selection) and <<ListboxSelect>> is delivered.
OnSetSelect ==
    /\ pc # "returned"
    /\ \E selection \in {None} \cup (0..(Len(sets_listbox) - 1)) :
        /\ curselection' = selection
        /\ IF selection # None
           THEN /\ selected_set_index' = selection
                /\ build_btn' = "normal"
                /\ status_label' = "Selected"
           ELSE /\ selected_set_index' = None
                /\ build_btn' = "disabled"
                /\ UNCHANGED status_label
        /\ UNCHANGED <<selected_directory, file_sets, sets_listbox, fsVars, buildVars>>

\* --------------------------------------------------------------- build_ctx

\* The directive file: the cabinet's name and its members, in order.
Directive(name) ==
    [cabinet |-> name \o DotCab, members |-> <<InfoXml, ElementsTxt, SightingsDAT>>]

\* The cabinet makecab writes for a directive, from the files of its
\* working directory.
Cabinet(dir, ddf) ==
    [i \in 1..Len(ddf.members) |-> [name |-> ddf.members[i], data |-> dir[ddf.members[i]]]]

\* A staging step that leaves out the third copy.
StagedTwo(fs, copied) ==
    LET one == IF copied >= 1 THEN WriteFile(NoFiles, InfoXml, Bytes(fs.xml)) ELSE NoFiles
        two == IF copied >= 2 THEN WriteFile(one, ElementsTxt, Bytes(fs.txt)) ELSE one
    IN  two

\* The three copies of the staging step, of which the first copied succeed.
Staged(fs, copied) ==
    LET one   == IF copied >= 1 THEN WriteFile(NoFiles, InfoXml, Bytes(fs.xml)) ELSE NoFiles
        two   == IF copied >= 2 THEN WriteFile(one, ElementsTxt, Bytes(fs.txt)) ELSE one
        three == IF copied >= 3 THEN WriteFile(two, SightingsDAT, Bytes(fs.dat)) ELSE two
    IN  three

\* Leaving the with block: TemporaryDirectory.cleanup() removes the temporary
\* directory of this build.  removed is FALSE when the directory cannot be
\* removed (it is the working directory of the process on Windows); the
\* exception this raises is caught by the handler at the end of build_ctx.
Cleanup(removed, shown, status, outcome) ==
    /\ temp' = NoFiles
    /\ tempdirs' = IF removed THEN tempdirs \ {builds} ELSE tempdirs
    /\ messages' = IF removed THEN messages \o shown
                   ELSE messages \o shown \o <<"Error: An error occurred">>
    /\ status_label' = IF removed THEN status ELSE "Error occurred during build"
    /\ result' = IF removed THEN outcome ELSE "Failed"
    /\ pc' = "returned"

\* The handler at the end of build_ctx, for an exception raised in the with
\* block while the working directory is not the temporary directory.
ExceptException ==
    Cleanup(TRUE, <<"Error: An error occurred">>, "Error occurred during build", "Failed")

\* build_ctx up to the first update(): the Build button is pressed.
BuildStart ==
    /\ pc = "idle"
    /\ build_btn = "normal"
    /\ builds < MaxBuilds
    /\ builds' = builds + 1
    /\ cwd_at_call' = cwd
    /\ ctx_at_call' = ctx
    /\ makecab' = "notrun"
    /\ makecab_runs' = 0
    /\ IF selected_set_index = None
       THEN /\ messages' = <<"Error: Please select a file set first">>
            /\ result' = "Failed"
            /\ raised' = FALSE
            /\ pc' = "returned"
            /\ UNCHANGED <<file_set, tempdirs, status_label>>
       ELSE IF selected_set_index >= Len(file_sets)
       THEN \* IndexError, raised outside the try statement
            /\ messages' = <<>>
            /\ result' = "Failed"
            /\ raised' = TRUE
            /\ pc' = "returned"
            /\ UNCHANGED <<file_set, tempdirs, status_label>>
       ELSE /\ file_set' = file_sets[selected_set_index + 1]
            /\ tempdirs' = tempdirs \cup {builds + 1}
            /\ status_label' = "Copying and renaming files..."
            /\ messages' = <<>>
            /\ raised' = FALSE
            /\ pc' = "Staging"
            /\ UNCHANGED result
    /\ UNCHANGED <<fsVars, selected_directory, file_sets, selected_set_index,
                   sets_listbox, curselection, build_btn, temp, cwd>>

\* From the first update() to the second: the three copies.  copied < 3: the
\* copy after the first copied raises (the file is gone or unreadable).
BuildStage ==
    /\ pc = "Staging"
    /\ \E copied \in 0..3 :
          IF copied = 3
          THEN /\ temp' = Staged(file_set, copied)
               /\ status_label' = "Creating CAB file..."
               /\ pc' = "Compressing"
               /\ UNCHANGED <<tempdirs, messages, result>>
          ELSE ExceptException
    /\ UNCHANGED <<fsVars, selected_directory, file_sets, selected_set_index,
                   sets_listbox, curselection, build_btn, file_set, cwd, builds,
                   raised, makecab, makecab_runs, cwd_at_call, ctx_at_call>>

\* The ways makecab can end in working directory dir: it cannot succeed when
\* a file its directive lists is missing.
MakecabExits(dir) ==
    IF \A i \in 1..Len(dir[DirectiveDdf].members) :
           dir[DirectiveDdf].members[i] \in DOMAIN dir
    THEN {"ok", "nonzero", "notfound"}
    ELSE {"nonzero", "notfound"}

\* subprocess.run without check=True: a nonzero exit raises nothing.
MakecabRaisesUnchecked(exit) == exit = "notfound"

\* subprocess.run(..., check=True) raises: CalledProcessError on a nonzero
\* exit, FileNotFoundError when makecab cannot be started.
MakecabRaises(exit) == exit # "ok"

\* From the second update() to the third: the directive file and makecab,
\* which ends with exit ("ok", "nonzero") or cannot be started ("notfound").
BuildCompress ==
    /\ pc = "Compressing"
    /\ \E exit \in MakecabExits(WriteFile(temp, DirectiveDdf, Directive(file_set.name))),
          removed \in BOOLEAN :
          LET staged == WriteFile(temp, DirectiveDdf, Directive(file_set.name))
          IN  IF cwd # 0 /\ cwd \notin tempdirs
              THEN \* os.getcwd() raises FileNotFoundError: the working
                   \* directory was removed
                   /\ Cleanup(TRUE, <<"Error: makecab.exe not found">>,
                              status_label, "Failed")
                   /\ UNCHANGED <<cwd, makecab, makecab_runs>>
              ELSE /\ makecab' = exit
                   /\ makecab_runs' = makecab_runs + 1
                   /\ IF ~MakecabRaises(exit)
                      THEN /\ temp' = WriteFile(staged, file_set.name \o DotCab,
                                        Cabinet(staged, staged[DirectiveDdf]))
                           /\ status_label' = "Creating CTX file..."
                           /\ pc' = "Finalizing"
                           /\ UNCHANGED <<cwd, tempdirs, messages, result>>
                      ELSE /\ cwd' = builds
                           /\ Cleanup(removed,
                                 IF exit = "nonzero"
                                 THEN <<"Error: Failed to create CAB file">>
                                 ELSE <<"Error: makecab.exe not found">>,
                                 status_label, "Failed")
    /\ UNCHANGED <<fsVars, selected_directory, file_sets, selected_set_index,
                   sets_listbox, curselection, build_btn, file_set, builds,
                   raised, cwd_at_call, ctx_at_call>>

\* The copy goes ahead whether the file exists or not.
ProceedsAlways(exists, answer) == TRUE

\* "if ctx_file.exists(): if not askyesno(...): return": the copy goes ahead
\* when the file does not exist or the user answers yes.
Proceeds(exists, answer) == ~exists \/ answer

\* After the third update(): the overwrite question and the copy to
\* <name>.ctx.  answer is the user's answer if asked; written is whether the
\* copy succeeds.
BuildFinalize ==
    /\ pc = "Finalizing"
    /\ \E answer \in BOOLEAN, written \in BOOLEAN :
          LET output_dir == selected_directory
              ctx_file   == file_set.name \o DotCtx
              cab_file   == file_set.name \o DotCab
              exists     == ctx_file \in DOMAIN ctx[output_dir]
              asked      == IF ~exists THEN <<>>
                            ELSE IF answer THEN <<"File Exists: Overwrite? yes">>
                            ELSE <<"File Exists: Overwrite? no">>
          IN  IF ~Proceeds(exists, answer)
              THEN /\ Cleanup(TRUE, asked, "Operation cancelled", "Cancelled")
                   /\ UNCHANGED ctx
              ELSE IF ~written
              THEN /\ Cleanup(TRUE, asked \o <<"Error: An error occurred">>,
                              "Error occurred during build", "Failed")
                   /\ UNCHANGED ctx
              ELSE /\ ctx' = [ctx EXCEPT ![output_dir] =
                                  WriteFile(@, ctx_file, temp[cab_file])]
                   /\ Cleanup(TRUE, asked \o <<"Success">>,
                              "Successfully created", "Done")
    /\ UNCHANGED <<files, selected_directory, file_sets, selected_set_index,
                   sets_listbox, curselection, build_btn, file_set, cwd, builds,
                   raised, makecab, makecab_runs, cwd_at_call, ctx_at_call>>

\* build_ctx has returned (or let an exception out) and the main loop runs
\* again; the record of the invocation is dropped.
BuildReturn ==
    /\ pc = "returned"
    /\ pc' = "idle"
    /\ file_set' = NoFileSet
    /\ messages' = <<>>
    /\ result' = "Idle"
    /\ raised' = FALSE
    /\ makecab' = "notrun"
    /\ makecab_runs' = 0
    /\ cwd_at_call' = cwd
    /\ ctx_at_call' = ctx
    /\ UNCHANGED <<fsVars, uiVars, temp, tempdirs, cwd, builds>>

Next ==
    \/ BrowseDirectory
    \/ OnSetSelect
    \/ BuildStart
    \/ BuildStage
    \/ BuildCompress
    \/ BuildFinalize
    \/ BuildReturn

Spec == Init /\ [][Next]_vars

NextScan ==
    \/ BrowseDirectory
    \/ OnSetSelect

SpecScan == InitScan /\ [][NextScan]_vars

\* ------------------------------------------------------------------ claims

\* The regular files of the selected directory that the scan puts on list ext
\* and whose base name is key ignoring case.
Components(ext, key) ==
    {e \in files[selected_directory] :
        e.is_file /\ Classify(e.name) = ext /\ Lower(Stem(e.name)) = key}

\* The base names, lowered, of the component files of the selected directory.
Keys ==
    {Lower(Stem(e.name)) : e \in {f \in files[selected_directory] :
                                    f.is_file /\ Classify(f.name) # "other"}}

\* The rows of file_sets whose name is key ignoring case.
Reported(key) == {i \in 1..Len(file_sets) : Lower(file_sets[i].name) = key}

\* C1: after a scan, every base name that has a .xml, a .txt and a .dat file
\* (names and extensions compared ignoring case) is reported by exactly one
\* FileSet.
C1_OneFileSetPerName ==
    selected_directory # "" =>
        \A key \in Keys :
            (\A ext \in {"xml", "txt", "dat"} : Components(ext, key) # {})
                => Cardinality(Reported(key)) = 1

\* C2: after a scan, no FileSet is reported for a base name that lacks a file
\* of one of the three extensions, and the xml, txt and dat of every FileSet
\* are files of the scanned directory, of that extension, whose base names
\* equal the set's name ignoring case.
C2_OnlyCompleteSets ==
    selected_directory # "" =>
        \A i \in 1..Len(file_sets) :
            LET fs == file_sets[i]
            IN  /\ \A ext \in {"xml", "txt", "dat"} :
                      Components(ext, Lower(fs.name)) # {}
                /\ File(fs.xml.name) \in Components("xml", Lower(fs.name))
                /\ File(fs.txt.name) \in Components("txt", Lower(fs.name))
                /\ File(fs.dat.name) \in Components("dat", Lower(fs.name))
                /\ {fs.xml.dir, fs.txt.dir, fs.dat.dir} = {selected_directory}

\* A scan of a directory that holds the complete set a and b.xml without a
\* b.txt or a b.dat: set a is reported and nothing else.
C2_Witness ==
    /\ selected_directory = "d1"
    /\ File(b_xml) \in files["d1"]
    /\ Len(file_sets) = 1
    /\ Lower(file_sets[1].name) = <<"a">>

\* A message box of kind Error was shown by the invocation.
ErrorShown == \E i \in 1..Len(messages) : messages[i] \in
    {"Error: Please select a file set first", "Error: An error occurred",
     "Error: Failed to create CAB file", "Error: makecab.exe not found"}

\* The question about overwriting was answered with text.
Answered(text) == \E i \in 1..Len(messages) : messages[i] = text

\* The .ctx file of the set being built.
CtxFile == file_set.name \o DotCtx

\* C3: when the compressor exits nonzero or cannot be started, the build ends
\* as a failure with an error shown, no exception leaves build_ctx, and the
\* .ctx files of every directory are what they were when build_ctx was called.
C3_CompressorFailureLeavesDestination ==
    (pc = "returned" /\ makecab \in {"nonzero", "notfound"}) =>
        /\ result = "Failed"
        /\ ErrorShown
        /\ ~raised
        /\ ctx = ctx_at_call

\* A build of a set whose .ctx file exists already has ended with a nonzero
\* exit of the compressor.
C3_Witness ==
    /\ pc = "returned"
    /\ makecab = "nonzero"
    /\ CtxFile \in DOMAIN ctx_at_call[selected_directory]

\* C4: a .ctx file that existed when build_ctx was called has other content
\* at its return only if the user answered yes to the overwrite question; if
\* the user answered no, no .ctx file has changed, the build ended Cancelled
\* with the status "Operation cancelled", and no error was shown.
C4_OverwriteOnlyWhenConfirmed ==
    pc = "returned" =>
        /\ \A d \in Dirs : \A n \in DOMAIN ctx_at_call[d] :
              ctx[d][n] # ctx_at_call[d][n] => Answered("File Exists: Overwrite? yes")
        /\ Answered("File Exists: Overwrite? no") =>
              /\ ctx = ctx_at_call
              /\ result = "Cancelled"
              /\ status_label = "Operation cancelled"
              /\ ~ErrorShown
              /\ ~raised

\* The user declined to overwrite an existing .ctx file.
C4_Witness ==
    /\ pc = "returned"
    /\ result = "Cancelled"
    /\ CtxFile \in DOMAIN ctx[selected_directory]
    /\ makecab = "ok"

\* C5: when build_ctx returns, the temporary directory it created does not
\* exist.
C5_StagingRemoved ==
    pc = "returned" => builds \notin tempdirs

\* The cabinet a build of file set fs is to produce.
CabinetOf(fs) ==
    <<[name |-> InfoXml,      data |-> Bytes(fs.xml)],
      [name |-> ElementsTxt,  data |-> Bytes(fs.txt)],
      [name |-> SightingsDAT, data |-> Bytes(fs.dat)]>>

\* C6: when a build ends Done, <name>.ctx in the directory the set was scanned
\* in is the cabinet with the members Info.xml, Elements.txt and
\* Sightings.DAT holding the set's xml, txt and dat files.
C6_CtxInScannedDirectory ==
    (pc = "returned" /\ result = "Done") =>
        /\ CtxFile \in DOMAIN ctx[file_set.xml.dir]
        /\ ctx[file_set.xml.dir][CtxFile] = CabinetOf(file_set)

\* C7: no invocation of build_ctx ends by an exception it lets out.
C7_NoExceptionEscapes ==
    pc = "returned" => ~raised

\* The phase of the build operation.
Phase == IF pc = "returned" THEN result ELSE IF pc = "idle" THEN "Idle" ELSE pc

PhaseSteps ==
    {<<"Idle", "Staging">>, <<"Idle", "Failed">>,
     <<"Staging", "Compressing">>, <<"Staging", "Failed">>,
     <<"Compressing", "Finalizing">>, <<"Compressing", "Failed">>,
     <<"Finalizing", "Done">>, <<"Finalizing", "Failed">>,
     <<"Finalizing", "Cancelled">>,
     <<"Done", "Idle">>, <<"Failed", "Idle">>, <<"Cancelled", "Idle">>}

\* C8: the phases of a build follow Idle, Staging, Compressing, Finalizing in
\* this order and end in Done, Failed or Cancelled, from where only the
\* return to Idle follows; the compressor is run only in phase Compressing
\* with the three files staged, and at most once per invocation; a .ctx file
\* is written only in phase Finalizing after the compressor succeeded; and
\* in a final phase nothing is written and the compressor is not run.
C8_PhaseOrder ==
    [][/\ Phase' # Phase => <<Phase, Phase'>> \in PhaseSteps
       /\ makecab_runs' > makecab_runs =>
             /\ Phase = "Compressing"
             /\ {InfoXml, ElementsTxt, SightingsDAT} \subseteq DOMAIN temp
       /\ makecab_runs' <= 1
       /\ ctx' # ctx => Phase = "Finalizing" /\ makecab = "ok" /\ Phase' = "Done"
       /\ Phase' = "Done" => Phase = "Finalizing" /\ makecab = "ok"
       /\ Phase \in {"Done", "Failed", "Cancelled"} =>
             /\ Phase' = "Idle"
             /\ UNCHANGED <<ctx, temp, tempdirs, cwd>>
             /\ makecab_runs' = 0
      ]_vars

\* A second build has ended Done after the compressor ran once in it.
C8_Witness ==
    /\ pc = "returned"
    /\ result = "Done"
    /\ makecab_runs = 1
    /\ builds = 2

\* C9: while the Build button is enabled, selected_set_index is a valid index
\* into file_sets and is the row selected in the list that is displayed.
C9_SelectionIsCurrent ==
    build_btn = "normal" =>
        /\ selected_set_index # None
        /\ selected_set_index < Len(file_sets)
        /\ selected_set_index = curselection

\* C10: when build_ctx returns, the working directory is the one it was
\* called in.
C10_WorkingDirectoryKept ==
    pc = "returned" => cwd = cwd_at_call

====
